---- MODULE Spec2Model ----
(***************************************************************************)
(* Availability board API: the directory store (users, tags, tag          *)
(* associations, busy slots) behind UsersService, and the availability     *)
(* query of AvailabilityService.getFreeUsers.                              *)
(*                                                                         *)
(* Strings are tuples of one-character strings, so that trim() and         *)
(* split(',') are computed, not assumed.  Instants are integers (the       *)
(* millisecond time line of Date.getTime()).                               *)
(***************************************************************************)
EXTENDS Integers, Sequences, FiniteSets, Bags, TLC

VARIABLES db, rd, wr, last

vars == <<db, rd, wr, last>>

-----------------------------------------------------------------------------
(* Bounds of the model *)

\* instants range over 0..MaxTime
MaxTime == 2

Times == 0..MaxTime

\* the ids generateUserId draws from
UserIds == {"usr_1", "usr_2"}

\* the BusySlot table holds at most MaxSlots rows
MaxSlots == 2

\* an absent string (undefined in a request, NULL in a column): a tuple that is
\* no string, its one element being no character
Undef == <<"undefined">>

\* an absent array of strings
UndefList == <<Undef>>

\* an absent query value or date text
UndefValue == [kind |-> "undefined", t |-> 0, v |-> <<>>]

-----------------------------------------------------------------------------
(* String.prototype.trim and split(',') on character tuples *)

RECURSIVE TrimStart(_)
TrimStart(s) ==
  IF s = <<>> THEN <<>>
  ELSE IF Head(s) = " " THEN TrimStart(Tail(s)) ELSE s

RECURSIVE TrimEnd(_)
TrimEnd(s) ==
  IF s = <<>> THEN <<>>
  ELSE IF s[Len(s)] = " " THEN TrimEnd(SubSeq(s, 1, Len(s) - 1)) ELSE s

Trim(s) == TrimEnd(TrimStart(s))

\* `!value?.trim()`: undefined, empty, or only white space
IsBlank(v) == v = Undef \/ Trim(v) = <<>>

\* s.split(','): the pieces between the commas, empty pieces included
RECURSIVE SplitFrom(_, _, _)
SplitFrom(s, cur, out) ==
  IF s = <<>> THEN Append(out, cur)
  ELSE IF Head(s) = "," THEN SplitFrom(Tail(s), <<>>, Append(out, cur))
  ELSE SplitFrom(Tail(s), Append(cur, Head(s)), out)

SplitComma(s) == SplitFrom(s, <<>>, <<>>)

Range(f) == {f[i] : i \in DOMAIN f}

\* the loop shared by normalizeTags and normalizeTagsFromQuery: trim, drop
\* empties, drop what was seen, keep first-seen order
RECURSIVE NormalizeLoop(_, _)
NormalizeLoop(raw, out) ==
  IF raw = <<>> THEN out
  ELSE LET normalized == Trim(Head(raw))
       IN IF normalized = <<>> \/ normalized \in Range(out)
          THEN NormalizeLoop(Tail(raw), out)
          ELSE NormalizeLoop(Tail(raw), Append(out, normalized))

\* UsersService.normalizeTags(tags ?? [])
normalizeTags(tags) == NormalizeLoop(IF tags = UndefList THEN <<>> ELSE tags, <<>>)

\* AvailabilityService.normalizeTagsFromQuery: a query value is undefined, one
\* string (split on commas) or an array of strings
normalizeTagsFromQuery(tags) ==
  LET raw == IF tags.kind = "undefined" THEN <<>>
             ELSE IF tags.kind = "array" THEN tags.v
             ELSE SplitComma(tags.v)
  IN NormalizeLoop(raw, <<>>)

\* the ISO text of instant t
Iso(t) == [kind |-> "iso", t |-> t, v |-> <<>>]

\* parseIsoDate: a date text is undefined, blank, not a date, or the ISO text
\* of an instant; the result is the instant or the BadRequest it throws
parseIsoDate(value) ==
  IF value.kind \in {"undefined", "blank"} THEN [err |-> "BadRequest", t |-> 0]
  ELSE IF value.kind # "iso" THEN [err |-> "BadRequest", t |-> 0]
  ELSE [err |-> "none", t |-> value.t]

-----------------------------------------------------------------------------
(* The tables of the store.  db.users maps an id to its row or to NoUser;  *)
(* db.tags is the Tag table (rows are unique by name); db.userTags the      *)
(* UserTag pairs, a tag named by its unique name; db.busySlots the bag of   *)
(* BusySlot rows [userId, from, to] (the generated row ids only tell equal *)
(* rows apart, which is what a bag does).                                  *)

NoUser == [name |-> Undef, email |-> Undef, phone |-> Undef]

Exists(d, id) == d.users[id] # NoUser

EmptyDb ==
  [users |-> [id \in UserIds |-> NoUser], tags |-> {}, userTags |-> {},
   busySlots |-> EmptyBag]

TagsOf(d, id) == {ut[2] : ut \in {x \in d.userTags : x[1] = id}}

\* the rows of BusySlot that belong to user id, as a bag
SlotsOf(d, id) ==
  LET keep == {r \in DOMAIN d.busySlots : r.userId = id}
  IN [r \in keep |-> d.busySlots[r]]

EmailHolders(d, email) == {id \in UserIds : Exists(d, id) /\ d.users[id].email = email}

\* a transaction in progress: the tables as written so far and the first error
Begin(d) == [db |-> d, err |-> "none"]

Fail(st, e) == [st EXCEPT !.err = e]

\* tx.tag.upsert({where: {name}, update: {}, create: {name}})
TagUpsert(st, name) ==
  IF st.err # "none" THEN st
  ELSE [st EXCEPT !.db.tags = @ \cup {name}]

\* tx.userTag.upsert on the pair (userId, tagId); UserTag_userId_fkey refuses a
\* pair whose user is gone
UserTagUpsert(st, id, name) ==
  IF st.err # "none" THEN st
  ELSE IF ~Exists(st.db, id) THEN Fail(st, "P2003")
  ELSE [st EXCEPT !.db.userTags = @ \cup {<<id, name>>}]

\* the loop `for (const name of tags)`: upsert the tag, then the pair
RECURSIVE AttachAll(_, _, _)
AttachAll(st, id, names) ==
  IF names = <<>> THEN st
  ELSE AttachAll(UserTagUpsert(TagUpsert(st, Head(names)), id, Head(names)),
                 id, Tail(names))

\* tx.userTag.deleteMany({where: {userId}})
UserTagDeleteMany(st, id) ==
  IF st.err # "none" THEN st
  ELSE [st EXCEPT !.db.userTags = {ut \in @ : ut[1] # id}]

\* UserTagDeleteNamed that deletes the named Tag rows too
UserTagDeleteNamedPurging(st, id, names) ==
  IF st.err # "none" THEN st
  ELSE [st EXCEPT !.db.userTags = {ut \in @ : ~(ut[1] = id /\ ut[2] \in names)},
                  !.db.tags = @ \ names]

\* tx.userTag.deleteMany({where: {userId, tag: {name: {in: names}}}})
UserTagDeleteNamed(st, id, names) ==
  IF st.err # "none" THEN st
  ELSE [st EXCEPT !.db.userTags = {ut \in @ : ~(ut[1] = id /\ ut[2] \in names)}]

\* tx.busySlot.deleteMany({where: {userId}})
BusySlotDeleteMany(st, id) ==
  IF st.err # "none" THEN st
  ELSE [st EXCEPT !.db.busySlots =
          [r \in {x \in DOMAIN @ : x.userId # id} |-> @[r]]]

\* a field of `data` that is undefined leaves the column as it is
Patch(old, new) == IF new = Undef THEN old ELSE new

\* tx.user.update({where: {id}, data: {name, email, phone}}): P2025 when the
\* row is gone, P2002 when User_email_key refuses the email
UserUpdate(st, id, name, email, phone) ==
  IF st.err # "none" THEN st
  ELSE IF ~Exists(st.db, id) THEN Fail(st, "P2025")
  ELSE IF email # Undef /\ EmailHolders(st.db, email) \ {id} # {} THEN Fail(st, "P2002")
  ELSE [st EXCEPT !.db.users[id] =
          [name |-> Patch(@.name, name), email |-> Patch(@.email, email),
           phone |-> Patch(@.phone, phone)]]

\* prisma.user.create with the nested tag creates: P2002 when User_pkey or
\* User_email_key refuses the row
UserCreate(st, id, name, email, phone, names) ==
  IF st.err # "none" THEN st
  ELSE IF Exists(st.db, id) \/ EmailHolders(st.db, email) # {} THEN Fail(st, "P2002")
  ELSE AttachAll([st EXCEPT !.db.users[id] =
                    [name |-> name, email |-> email, phone |-> phone]],
                 id, names)

\* prisma.user.delete({where: {id}}): P2025 when the row is gone; ON DELETE
\* CASCADE removes the user's UserTag and BusySlot rows with it
UserDelete(st, id) ==
  IF st.err # "none" THEN st
  ELSE IF ~Exists(st.db, id) THEN Fail(st, "P2025")
  ELSE BusySlotDeleteMany(UserTagDeleteMany(
         [st EXCEPT !.db.users[id] = NoUser], id), id)

\* BusySlotCreate without the foreign key on userId
BusySlotCreateUnchecked(st, id, from, to) ==
  IF st.err # "none" THEN st
  ELSE [st EXCEPT !.db.busySlots =
          @ (+) SetToBag({[userId |-> id, from |-> from, to |-> to]})]

\* prisma.busySlot.create: BusySlot_userId_fkey refuses a row whose user is gone
BusySlotCreate(st, id, from, to) ==
  IF st.err # "none" THEN st
  ELSE IF ~Exists(st.db, id) THEN Fail(st, "P2003")
  ELSE [st EXCEPT !.db.busySlots =
          @ (+) SetToBag({[userId |-> id, from |-> from, to |-> to]})]

\* Commit of statements that run outside a transaction: what was written
\* before the error stays
CommitKeepsWrites(before, st) == st.db

\* what a transaction (or a single statement, which is one) leaves in the
\* store: its writes when it commits, nothing when it throws
Commit(before, st) == IF st.err = "none" THEN st.db ELSE before


-----------------------------------------------------------------------------
(* The availability query *)

\* findManyWhere with the tag filters joined by OR
findManyWhereAnyTag(d, from, to, tagFilter) ==
  {id \in UserIds :
     /\ Exists(d, id)
     /\ tagFilter # <<>> =>
          \E i \in 1..Len(tagFilter) :
            \E ut \in d.userTags : ut[1] = id /\ ut[2] = tagFilter[i]
     /\ ~\E s \in DOMAIN d.busySlots :
          s.userId = id /\ s.from < to /\ s.to > from}

\* findManyWhere with the tag filters merged into one `tags` key: the last wins
findManyWhereLastTag(d, from, to, tagFilter) ==
  {id \in UserIds :
     /\ Exists(d, id)
     /\ tagFilter # <<>> =>
          \E ut \in d.userTags : ut[1] = id /\ ut[2] = tagFilter[Len(tagFilter)]
     /\ ~\E s \in DOMAIN d.busySlots :
          s.userId = id /\ s.from < to /\ s.to > from}

\* findManyWhere with lte and gte for lt and gt
findManyWhereClosed(d, from, to, tagFilter) ==
  {id \in UserIds :
     /\ Exists(d, id)
     /\ \A i \in 1..Len(tagFilter) :
          \E ut \in d.userTags : ut[1] = id /\ ut[2] = tagFilter[i]
     /\ ~\E s \in DOMAIN d.busySlots :
          s.userId = id /\ s.from <= to /\ s.to >= from}

\* the `where` of prisma.user.findMany in getFreeUsers: every tag filter
\* `tags: {some: {tag: {name}}}` and `busySlots: {none: {from < to, to > from}}`
findManyWhere(d, from, to, tagFilter) ==
  {id \in UserIds :
     /\ Exists(d, id)
     /\ \A i \in 1..Len(tagFilter) :
          \E ut \in d.userTags : ut[1] = id /\ ut[2] = tagFilter[i]
     /\ ~\E s \in DOMAIN d.busySlots :
          s.userId = id /\ s.from < to /\ s.to > from}

\* what `include: {tags: {include: {tag: true}}}` loads for the users found
includeTags(d, ids) == [id \in ids |-> TagsOf(d, id)]

\* what `include: {busySlots: true}` loads for the users found
includeBusySlots(d, ids) == [id \in ids |-> SlotsOf(d, id)]

\* a user as the store holds it: its row, its tag names, its busy slots
ViewOf(d, id) == [row |-> d.users[id], tags |-> TagsOf(d, id), busy |-> SlotsOf(d, id)]

-----------------------------------------------------------------------------
(* Requests.  `last` is the response of the request the latest step          *)
(* completed, until it is delivered (op "none" when there is none); `wrote`  *)
(* tells whether any step of that request changed the store.  `wr` is a      *)
(* markBusy or a create between two of its awaits, `rd` a getFreeUsers       *)
(* between its queries.                                                      *)

NoQuery == [from |-> 0, to |-> 0, filter |-> <<>>, users |-> <<>>, reads |-> 0,
            muts |-> 0, pre |-> EmptyDb]

NoDates == [from |-> [kind |-> "none", t |-> 0, v |-> <<>>],
            to |-> [kind |-> "none", t |-> 0, v |-> <<>>]]

\* no CreateUserInput
NoInput == [name |-> Undef, email |-> Undef, phone |-> Undef, tags |-> UndefList]

Response(op, outcome, wrote) ==
  [op |-> op, outcome |-> outcome, wrote |-> wrote, req |-> NoDates,
   input |-> NoInput, q |-> NoQuery]

\* the response to a create, with the CreateUserInput it carried
CreateResponse(outcome, wrote, input) ==
  [Response("create", outcome, wrote) EXCEPT !.input = input]

\* the response to a request that carried dates, with the dates it carried
DatedResponse(op, outcome, wrote, from, to) ==
  [Response(op, outcome, wrote) EXCEPT !.req = [from |-> from, to |-> to]]

NoResponse == Response("none", "none", FALSE)

WrIdle ==
  [pc |-> "idle", id |-> "", from |-> 0, to |-> 0, name |-> Undef,
   email |-> Undef, phone |-> Undef, tags |-> <<>>, input |-> NoInput,
   wrote |-> FALSE]

RdIdle ==
  [pc |-> "idle", from |-> 0, to |-> 0, filter |-> <<>>, rows |-> <<>>,
   tags |-> <<>>, busy |-> <<>>, pending |-> {}, reads |-> 0, muts |-> 0,
   pre |-> EmptyDb]

\* a getFreeUsers in flight sees the store change under it: it counts the
\* commits (0, 1, many) and keeps the store as it was before the only one
Observe(new) ==
  IF rd.pc = "idle" \/ new = db THEN rd
  ELSE IF rd.muts = 0 THEN [rd EXCEPT !.muts = 1, !.pre = db]
  ELSE [rd EXCEPT !.muts = 2, !.pre = EmptyDb]

\* the model lets one commit land while a getFreeUsers is in flight
OneRace(new) == rd.pc = "idle" \/ rd.muts = 0 \/ new = db

Init ==
  /\ db = EmptyDb
  /\ rd = RdIdle
  /\ wr = WrIdle
  /\ last = NoResponse

\* UsersService.delete
Delete(id) ==
  LET st == UserDelete(Begin(db), id)
      new == Commit(db, st)
  IN /\ OneRace(new)
     /\ db' = new
     /\ rd' = Observe(new)
     /\ last' = Response("delete", IF st.err = "none" THEN "ok" ELSE "NotFound",
                         new # db)
     /\ UNCHANGED wr

\* the transaction of UsersService.update
UpdateTx(d, id, input, tags) ==
  IF ~Exists(d, id) THEN Fail(Begin(d), "NotFound")
  ELSE LET replaced == IF tags = UndefList THEN Begin(d)
                       ELSE AttachAll(UserTagDeleteMany(Begin(d), id), id, tags)
       IN UserUpdate(replaced, id, input.name, input.email, input.phone)

\* UsersService.update
Update(id, input) ==
  LET invalid == \/ input.name # Undef /\ IsBlank(input.name)
                 \/ input.email # Undef /\ IsBlank(input.email)
      tags == IF input.tags = UndefList THEN UndefList ELSE normalizeTags(input.tags)
      st == IF invalid THEN Fail(Begin(db), "BadRequest") ELSE UpdateTx(db, id, input, tags)
      new == Commit(db, st)
  IN /\ OneRace(new)
     /\ db' = new
     /\ rd' = Observe(new)
     /\ last' = Response("update", IF st.err = "none" THEN "ok" ELSE st.err, new # db)
     /\ UNCHANGED wr

\* the transaction of UsersService.updateTags
UpdateTagsTx(d, id, add, remove) ==
  IF ~Exists(d, id) THEN Fail(Begin(d), "NotFound")
  ELSE LET added == AttachAll(Begin(d), id, add)
       IN IF Len(remove) > 0 THEN UserTagDeleteNamed(added, id, Range(remove))
          ELSE added

\* UsersService.updateTags
UpdateTags(id, input) ==
  LET st == UpdateTagsTx(db, id, normalizeTags(input.add), normalizeTags(input.remove))
      new == Commit(db, st)
  IN /\ OneRace(new)
     /\ db' = new
     /\ rd' = Observe(new)
     /\ last' = Response("updateTags", IF st.err = "none" THEN "ok" ELSE st.err, new # db)
     /\ UNCHANGED wr

\* markBusyRejects with > for >=
markBusyRejectsInverted(from, to) == from > to

\* `from.getTime() >= to.getTime()` of markBusy
markBusyRejects(from, to) == from >= to

\* UsersService.markBusy up to its second await: the dates, their order, and
\* the findUnique of the user
MarkBusy(id, input) ==
  LET from == parseIsoDate(input.from)
      to == parseIsoDate(input.to)
      invalid == \/ from.err # "none" \/ to.err # "none"
                 \/ markBusyRejects(from.t, to.t)
  IN /\ wr.pc = "idle"
     /\ BagCardinality(db.busySlots) < MaxSlots
     /\ IF invalid \/ ~Exists(db, id)
        THEN /\ last' = DatedResponse("markBusy",
                                      IF invalid THEN "BadRequest" ELSE "NotFound",
                                      FALSE, input.from, input.to)
             /\ UNCHANGED wr
        ELSE /\ wr' = [WrIdle EXCEPT !.pc = "mb_create", !.id = id,
                                     !.from = from.t, !.to = to.t]
             /\ last' = NoResponse
     /\ UNCHANGED <<db, rd>>

\* UsersService.markBusy, its prisma.busySlot.create
MarkBusyCreate ==
  LET st == BusySlotCreate(Begin(db), wr.id, wr.from, wr.to)
      new == Commit(db, st)
  IN /\ wr.pc = "mb_create"
     /\ OneRace(new)
     /\ db' = new
     /\ rd' = Observe(new)
     /\ wr' = WrIdle
     /\ last' = DatedResponse("markBusy", IF st.err = "none" THEN "ok" ELSE st.err,
                              wr.wrote \/ new # db, Iso(wr.from), Iso(wr.to))

\* UsersService.create up to the end of its try block; generateUserId draws id
Create(id, input) ==
  LET invalid == IsBlank(input.name) \/ IsBlank(input.email)
      tags == normalizeTags(input.tags)
      st == UserCreate(Begin(db), id, input.name, input.email, input.phone, tags)
      new == Commit(db, st)
  IN /\ wr.pc = "idle"
     /\ IF invalid
        THEN /\ last' = CreateResponse("BadRequest", FALSE, input)
             /\ UNCHANGED <<db, rd, wr>>
        ELSE /\ OneRace(new)
             /\ db' = new
             /\ rd' = Observe(new)
             /\ IF st.err = "P2002"
                THEN /\ wr' = [WrIdle EXCEPT !.pc = "cr_find", !.name = input.name,
                                             !.email = input.email,
                                             !.phone = input.phone, !.tags = tags,
                                             !.input = input, !.wrote = new # db]
                     /\ last' = NoResponse
                ELSE /\ wr' = WrIdle
                     /\ last' = CreateResponse(
                                  IF st.err = "none" THEN "ok" ELSE st.err,
                                  new # db, input)

\* UsersService.create, the findUnique by email of its catch block
CreateFind ==
  LET existing == EmailHolders(db, wr.email)
  IN /\ wr.pc = "cr_find"
     /\ IF existing = {}
        THEN /\ wr' = WrIdle
             /\ last' = CreateResponse("P2002", wr.wrote, wr.input)
        ELSE /\ wr' = [wr EXCEPT !.pc = "cr_reset", !.id = CHOOSE e \in existing : TRUE]
             /\ last' = NoResponse
     /\ UNCHANGED <<db, rd>>

\* the transaction of the catch block of UsersService.create
ResetTx(d, id, name, phone, tags) ==
  UserUpdate(AttachAll(UserTagDeleteMany(BusySlotDeleteMany(Begin(d), id), id),
                       id, tags),
             id, name, Undef, phone)

\* UsersService.create, the reset of the user that holds the email
CreateReset ==
  LET st == ResetTx(db, wr.id, wr.name, wr.phone, wr.tags)
      new == Commit(db, st)
  IN /\ wr.pc = "cr_reset"
     /\ OneRace(new)
     /\ db' = new
     /\ rd' = Observe(new)
     /\ wr' = WrIdle
     /\ last' = CreateResponse(IF st.err = "none" THEN "ok" ELSE st.err,
                               wr.wrote \/ new # db, wr.input)

\* windowRejects with > for >=
windowRejectsInverted(from, to) == from > to

\* `from.getTime() >= to.getTime()` of getFreeUsers
windowRejects(from, to) == from >= to

\* the users of a getFreeUsers result: for each id found, the row the first
\* query read and what the includes loaded
UsersOut(r) ==
  [id \in DOMAIN r.rows |-> [row |-> r.rows[id], tags |-> r.tags[id], busy |-> r.busy[id]]]

QueryResponse(r) ==
  [DatedResponse("getFreeUsers", "ok", FALSE, Iso(r.from), Iso(r.to)) EXCEPT
     !.q = [from |-> r.from, to |-> r.to, filter |-> r.filter, users |-> UsersOut(r),
            reads |-> r.reads, muts |-> r.muts, pre |-> r.pre]]

\* AvailabilityService.getFreeUsers up to the rows of prisma.user.findMany: the
\* dates, their order, the tag filter, and the query of the User table.  The
\* relations of `include` are loaded by the queries that follow it.
GetFreeUsers(input) ==
  LET from == parseIsoDate(input.from)
      to == parseIsoDate(input.to)
      invalid == \/ from.err # "none" \/ to.err # "none"
                 \/ windowRejects(from.t, to.t)
      tagFilter == normalizeTagsFromQuery(input.tags)
      ids == findManyWhere(db, from.t, to.t, tagFilter)
      found == [RdIdle EXCEPT !.from = from.t, !.to = to.t, !.filter = tagFilter,
                              !.rows = [id \in ids |-> db.users[id]],
                              !.tags = [id \in ids |-> {}],
                              !.busy = [id \in ids |-> EmptyBag],
                              !.reads = 1]
  IN /\ rd.pc = "idle"
     /\ IF invalid
        THEN /\ last' = DatedResponse("getFreeUsers", "BadRequest", FALSE,
                                      input.from, input.to)
             /\ UNCHANGED rd
        ELSE IF ids = {}
        THEN /\ last' = QueryResponse(found)
             /\ UNCHANGED rd
        ELSE /\ rd' = [found EXCEPT !.pc = "include", !.pending = {"tags", "busySlots"}]
             /\ last' = NoResponse
     /\ UNCHANGED <<db, wr>>

\* one relation query of the findMany in flight is answered; the response goes
\* out with the last of them
Loaded(r) ==
  IF r.pending = {}
  THEN /\ rd' = RdIdle
       /\ last' = QueryResponse(r)
  ELSE /\ rd' = r
       /\ last' = NoResponse

\* prisma.user.findMany, the query that loads `tags` of the users found
LoadTags ==
  /\ rd.pc = "include"
  /\ "tags" \in rd.pending
  /\ Loaded([rd EXCEPT !.tags = includeTags(db, DOMAIN rd.rows),
                       !.pending = @ \ {"tags"}, !.reads = @ + 1])
  /\ UNCHANGED <<db, wr>>

\* LoadBusySlots that deletes, as it loads, the rows that ended before the window
LoadBusySlotsPurging ==
  /\ rd.pc = "include"
  /\ "busySlots" \in rd.pending
  /\ Loaded([rd EXCEPT !.busy = includeBusySlots(db, DOMAIN rd.rows),
                       !.pending = @ \ {"busySlots"}, !.reads = @ + 1])
  /\ db' = [db EXCEPT !.busySlots = [r \in {x \in DOMAIN @ : x.to > rd.from} |-> @[r]]]
  /\ UNCHANGED wr

\* prisma.user.findMany, the query that loads `busySlots` of the users found
LoadBusySlots ==
  /\ rd.pc = "include"
  /\ "busySlots" \in rd.pending
  /\ Loaded([rd EXCEPT !.busy = includeBusySlots(db, DOMAIN rd.rows),
                       !.pending = @ \ {"busySlots"}, !.reads = @ + 1])
  /\ UNCHANGED <<db, wr>>

-----------------------------------------------------------------------------
(* The requests the model sends.  A scope is the requests one specification  *)
(* draws from, and whether requests may overlap.                             *)

BadDates ==
  {UndefValue, [kind |-> "blank", t |-> 0, v |-> <<>>],
   [kind |-> "not-a-date", t |-> 0, v |-> <<>>]}

\* the (from, to) of a request: every pair of instants, and each way one of
\* the two can fail to parse
DatePairs ==
  [from : {Iso(t) : t \in Times}, to : {Iso(t) : t \in Times}]
    \cup [from : BadDates, to : {Iso(1)}] \cup [from : {Iso(0)}, to : BadDates]

Window(pair, tags) == [from |-> pair.from, to |-> pair.to, tags |-> tags]

User(name, email, phone, tags) ==
  [name |-> name, email |-> email, phone |-> phone, tags |-> tags]

TagQueries ==
  {UndefValue,
   [kind |-> "string", t |-> 0, v |-> <<"a">>],
   [kind |-> "string", t |-> 0, v |-> <<" ", "b", ",", ",", "a", " ", ",", "b">>],
   [kind |-> "array", t |-> 0, v |-> << <<"b">>, <<" ">> >>]}

\* the availability query over a directory of two users, two tags and every
\* interval of the time line, one request at a time
QueryScope ==
  [overlap |-> FALSE,
   create |-> {User(<<"n">>, <<"x">>, Undef, << <<"a">> >>),
               User(<<"n">>, <<"y">>, Undef, << <<" ", "a">>, <<"b">>, <<"a">> >>)},
   update |-> {User(Undef, Undef, Undef, <<>>)},
   updateTags |-> {[add |-> << <<"a">> >>, remove |-> UndefList],
                   [add |-> << <<"b">>, <<" ", "b">> >>, remove |-> << <<"a", " ">> >>]},
   markBusy |-> DatePairs,
   query |-> {Window(pair, tags) : pair \in DatePairs, tags \in TagQueries}]

\* the directory's writes, valid and invalid, one request at a time
DirectoryScope ==
  [overlap |-> FALSE,
   create |-> {User(<<"n">>, <<"x">>, Undef, UndefList),
               User(<<"m">>, <<"x">>, <<"p">>, << <<" ", "a">>, <<"b">>, <<"a">> >>),
               User(<<"n">>, <<"y">>, Undef, << <<"a">> >>),
               User(<<" ">>, <<"x">>, Undef, UndefList),
               User(<<"n">>, Undef, Undef, UndefList)},
   update |-> {User(<<"m">>, Undef, <<"p">>, UndefList),
               User(Undef, <<"y">>, Undef, << <<"b", " ">>, <<" ">> >>),
               User(Undef, Undef, Undef, <<>>),
               User(<<>>, Undef, Undef, UndefList),
               User(Undef, <<" ">>, Undef, << <<"a">> >>)},
   updateTags |-> {[add |-> << <<"b">>, <<" ", "b">> >>, remove |-> << <<"a", " ">> >>],
                   [add |-> UndefList, remove |-> << <<"a">>, <<"b">> >>]},
   markBusy |-> [from : BadDates \cup {Iso(0), Iso(1)}, to : {Iso(0), Iso(1)}],
   query |-> {Window([from |-> Iso(0), to |-> Iso(1)], UndefValue)}]

\* requests that overlap: one user at a time, every interval
RaceScope ==
  [overlap |-> TRUE,
   create |-> {User(<<"n">>, <<"x">>, Undef, << <<"a">> >>)},
   update |-> {User(<<"m">>, Undef, Undef, << <<"b">> >>)},
   updateTags |-> {[add |-> << <<"b">> >>, remove |-> << <<"a">> >>]},
   markBusy |-> [from : {Iso(t) : t \in Times}, to : {Iso(t) : t \in Times}],
   query |-> {Window(pair, tags) :
                pair \in [from : {Iso(t) : t \in Times}, to : {Iso(t) : t \in Times}],
                tags \in {UndefValue, [kind |-> "string", t |-> 0, v |-> <<"a">>]}}]

\* the response of the latest step has left
Sent == last.op = "none"

\* a request is accepted at any time when requests may overlap, and when no
\* other is in flight otherwise
Accepts(scope) == Sent /\ (scope.overlap \/ (rd.pc = "idle" /\ wr.pc = "idle"))

\* the controller returns the response of the service to the client
Deliver ==
  /\ ~Sent
  /\ last' = NoResponse
  /\ UNCHANGED <<db, rd, wr>>

NextOver(scope) ==
  \/ Accepts(scope) /\ \E id \in UserIds, input \in scope.create : Create(id, input)
  \/ Sent /\ CreateFind
  \/ Sent /\ CreateReset
  \/ Accepts(scope) /\ \E id \in UserIds, input \in scope.update : Update(id, input)
  \/ Accepts(scope) /\ \E id \in UserIds : Delete(id)
  \/ Accepts(scope) /\ \E id \in UserIds, input \in scope.updateTags : UpdateTags(id, input)
  \/ Accepts(scope) /\ \E id \in UserIds, input \in scope.markBusy : MarkBusy(id, input)
  \/ Sent /\ MarkBusyCreate
  \/ Accepts(scope) /\ \E input \in scope.query : GetFreeUsers(input)
  \/ Sent /\ LoadTags
  \/ Sent /\ LoadBusySlots
  \/ Deliver

QueryNext == NextOver(QueryScope)

DirectoryNext == NextOver(DirectoryScope)

RaceNext == NextOver(RaceScope)

\* the availability query, one request at a time
QuerySpec == Init /\ [][QueryNext]_vars

\* the directory's writes, one request at a time
DirectorySpec == Init /\ [][DirectoryNext]_vars

\* overlapping requests
RaceSpec == Init /\ [][RaceNext]_vars

-----------------------------------------------------------------------------
(* The availability query, checked under QuerySpec *)

Answered == last.op = "getFreeUsers" /\ last.outcome = "ok"

Returned == DOMAIN last.q.users

Required == Range(last.q.filter)

Existing == {id \in UserIds : Exists(db, id)}

\* busy slot s and the window [from, to) overlap
Overlaps(s, from, to) == s.from < to /\ from < s.to

HasAll(id, T) == \A name \in T : <<id, name>> \in db.userTags

IsFree(id, from, to) ==
  \A s \in DOMAIN db.busySlots : s.userId = id => ~Overlaps(s, from, to)

\* C1: a getFreeUsers over a window from < to and required tags T returns
\* exactly the users that hold every tag of T and have no busy slot S with
\* S.from < W.to and W.from < S.to; with T empty, exactly the free users; a
\* user with no busy slot is free over every window.
FreeUsersExact ==
  Answered =>
    /\ last.q.from < last.q.to
    /\ Returned = {id \in Existing : /\ HasAll(id, Required)
                                     /\ IsFree(id, last.q.from, last.q.to)}
    /\ Required = {} => Returned = {id \in Existing : IsFree(id, last.q.from, last.q.to)}
    /\ \A id \in Existing :
         HasAll(id, Required) /\ SlotsOf(db, id) = EmptyBag => id \in Returned

\* a query for one tag returns a user that holds two tags and has a busy slot,
\* and leaves out a user that holds the tag and is busy in the window
FreeUsersExactWitness ==
  /\ Answered
  /\ Cardinality(Required) = 1
  /\ \E u \in Returned : SlotsOf(db, u) # EmptyBag /\ Cardinality(TagsOf(db, u)) = 2
  /\ \E v \in Existing \ Returned :
       HasAll(v, Required) /\ ~IsFree(v, last.q.from, last.q.to)

\* every slot of the user touches the window: it ends where the window starts
\* or starts where the window ends
OnlyTouches(id, from, to) ==
  /\ SlotsOf(db, id) # EmptyBag
  /\ \A s \in DOMAIN SlotsOf(db, id) : s.to = from \/ s.from = to

\* C2: touching intervals never overlap: a user whose busy slots only touch
\* the query window (slot.to = window.from, or slot.from = window.to) and who
\* holds the required tags is returned.
TouchingNeverOverlaps ==
  Answered =>
    \A id \in Existing :
      HasAll(id, Required) /\ OnlyTouches(id, last.q.from, last.q.to)
        => id \in Returned

\* both users are returned, and each has a busy slot that only touches the
\* window
TouchingWitness ==
  /\ Answered
  /\ Cardinality(Returned) = 2
  /\ \A u \in Returned : OnlyTouches(u, last.q.from, last.q.to)

\* the dates of a request do not make a window: one is missing or is no date,
\* or from is not before to
NoWindow(req) ==
  \/ req.from.kind # "iso"
  \/ req.to.kind # "iso"
  \/ req.from.t >= req.to.t

\* C3: getFreeUsers fails with BadRequest, reads nothing from the store and
\* returns no users whenever from or to is missing or unparseable or
\* from >= to; it answers only windows with from strictly before to.
InvalidWindowRejected ==
  last.op = "getFreeUsers" =>
    /\ NoWindow(last.req) =>
         /\ last.outcome = "BadRequest"
         /\ last.q.reads = 0
         /\ last.q.users = <<>>
    /\ last.outcome = "ok" => ~NoWindow(last.req) /\ last.q.reads > 0
    /\ last.outcome \in {"ok", "BadRequest"}

\* a window with from = to is refused while the store holds a free user
InvalidWindowWitness ==
  /\ last.op = "getFreeUsers"
  /\ last.outcome = "BadRequest"
  /\ last.req.from.kind = "iso" /\ last.req.to.kind = "iso"
  /\ last.req.from.t = last.req.to.t
  /\ \E id \in Existing : SlotsOf(db, id) = EmptyBag

TagNames == {<<"a">>, <<"b">>, <<"c">>}

TagFilters == {<<>>, << <<"a">> >>, << <<"b">> >>, << <<"b">>, <<"a">> >>, << <<"c">> >>}

Windows == {w \in Times \X Times : w[1] < w[2]}

\* C7: tag intersection is monotonic: for every window W, tag set T and tag
\* name x, the users of getFreeUsers(W, T with x) are among those of
\* getFreeUsers(W, T); so are they for the query just answered.
TagFilterMonotonic ==
  /\ \A w \in Windows, T \in TagFilters, x \in TagNames :
       findManyWhere(db, w[1], w[2], Append(T, x))
         \subseteq findManyWhere(db, w[1], w[2], T)
  /\ Answered =>
       \A x \in TagNames :
         findManyWhere(db, last.q.from, last.q.to, Append(last.q.filter, x))
           \subseteq Returned

\* the query answered returned both users, and one more required tag drops one
TagFilterMonotonicWitness ==
  /\ Answered
  /\ Cardinality(Returned) = 2
  /\ Required # {}
  /\ \E x \in TagNames :
       Cardinality(findManyWhere(db, last.q.from, last.q.to,
                                 Append(last.q.filter, x))) = 1

\* a step of getFreeUsers: it moves the query in flight or sends its response
QueryStep == rd' # rd \/ last'.op = "getFreeUsers"

\* the response is the one the store, as it is, determines
AnswerOfStore ==
  Answered =>
    /\ Returned = findManyWhere(db, last.q.from, last.q.to, last.q.filter)
    /\ \A id \in Returned : last.q.users[id] = ViewOf(db, id)

\* C8: getFreeUsers is a pure read: no step of it changes users, tags, tag
\* associations or busy slots, and its response is a function of the store
\* and the inputs, so a second call on the same store returns the same users.
PureRead == [][QueryStep => db' = db]_vars /\ []AnswerOfStore

\* a query answered with a user that has a tag and a busy slot ending before
\* the window
PureReadWitness ==
  /\ Answered
  /\ \E u \in Returned :
       /\ last.q.users[u].tags # {}
       /\ \E s \in DOMAIN last.q.users[u].busy : s.to <= last.q.from

-----------------------------------------------------------------------------
(* The directory's writes, checked under DirectorySpec *)

\* the step adds a row to BusySlot
AddsSlot(r) == CopiesIn(r, db'.busySlots) > CopiesIn(r, db.busySlots)

SlotsOrdered ==
  /\ \A s \in DOMAIN db.busySlots : s.from < s.to
  /\ last.op = "markBusy" /\ last.req.from.kind = "iso" /\ last.req.to.kind = "iso"
       /\ last.req.from.t >= last.req.to.t
       => last.outcome = "BadRequest" /\ ~last.wrote

\* C4: every stored busy slot has from strictly before to: a markBusy with
\* from >= to is rejected with BadRequest and creates no slot, and the only
\* step that adds a slot is a successful markBusy, which adds the interval it
\* was given.
BusySlotsOrdered ==
  /\ []SlotsOrdered
  /\ [][\A r \in DOMAIN db'.busySlots :
          AddsSlot(r) =>
            /\ last'.op = "markBusy" /\ last'.outcome = "ok"
            /\ r.from = last'.req.from.t /\ r.to = last'.req.to.t]_vars

\* a markBusy with from = to is refused while the table holds a slot
BusySlotsOrderedWitness ==
  /\ last.op = "markBusy"
  /\ last.outcome = "BadRequest"
  /\ last.req.from.kind = "iso" /\ last.req.to.kind = "iso"
  /\ last.req.from.t = last.req.to.t
  /\ db.busySlots # EmptyBag

\* C6: the tag catalog never shrinks: a tag name in the Tag table is in it in
\* every later state, whatever updateTags, update, duplicate-email create or
\* delete follows.
TagCatalogNeverShrinks == [][db.tags \subseteq db'.tags]_vars

Unattached == {name \in db.tags : \A id \in UserIds : <<id, name>> \notin db.userTags}

\* an updateTags has detached the last holder of a tag, and the tag is still
\* in the catalog
TagCatalogWitness ==
  /\ last.op = "updateTags"
  /\ last.wrote
  /\ Existing # {}
  /\ Unattached # {}
  /\ db.userTags = {}

\* C9: failed requests never leave partial writes: a create, update,
\* updateTags, markBusy or delete that ends in an error has changed neither
\* users, tags, tag associations nor busy slots.
NoPartialWrites == last.outcome \notin {"none", "ok"} => ~last.wrote

\* an update that replaces the tags of the user and takes the email of the
\* other user has failed on User_email_key; the user's two tags are in place
NoPartialWritesWitness ==
  /\ last.op = "update"
  /\ last.outcome = "P2002"
  /\ \E id \in Existing :
       db.users[id].email = <<"x">> /\ TagsOf(db, id) = {<<"a">>, <<"b">>}

\* the tag names a CreateUserInput asks for: each name trimmed, the empty ones
\* dropped, each once
RequestedTags(input) ==
  IF input.tags = UndefList THEN {}
  ELSE {Trim(input.tags[i]) : i \in DOMAIN input.tags} \ {<<>>}

\* no two users hold the same email
EmailsUnique ==
  \A a \in Existing, b \in Existing : db.users[a].email = db.users[b].email => a = b

\* the step answers a create that passed validation and whose email a user held
AnswersDuplicate ==
  /\ last'.op = "create"
  /\ last.op = "none"
  /\ ~IsBlank(last'.input.name)
  /\ ~IsBlank(last'.input.email)
  /\ EmailHolders(db, last'.input.email) # {}

\* the step answers ok, adds no user, and leaves the holder id of the email
\* with its email, no busy slot, the tags of the input and the name of the input
ResetsHolder(id, input) ==
  /\ last'.outcome = "ok"
  /\ \A u \in UserIds : Exists(db', u) <=> Exists(db, u)
  /\ Exists(db', id)
  /\ db'.users[id].email = input.email
  /\ SlotsOf(db', id) = EmptyBag
  /\ TagsOf(db', id) = RequestedTags(input)
  /\ db'.users[id].name = input.name

\* C11: create-or-reset on duplicate email: a create whose email an existing
\* user holds is answered ok and adds no user; the holder keeps its id and
\* email, has no busy slot left, has exactly the normalized tags of the
\* request, and has the name and the phone of the request; and no two users
\* share an email in any state.
CreateOrReset ==
  [][/\ EmailsUnique'
     /\ AnswersDuplicate =>
          \A id \in EmailHolders(db, last'.input.email) :
            /\ ResetsHolder(id, last'.input)
            /\ db'.users[id].phone = last'.input.phone]_vars

\* C11 but for the phone, which the reset leaves as it is when the request
\* has none
CreateOrResetKeepingPhone ==
  [][/\ EmailsUnique'
     /\ AnswersDuplicate =>
          \A id \in EmailHolders(db, last'.input.email) :
            /\ ResetsHolder(id, last'.input)
            /\ db'.users[id].phone = Patch(db.users[id].phone, last'.input.phone)]_vars

\* a create has reset the holder of its email, who had a phone, two tags and
\* a busy slot, to a request with neither phone nor tags
CreateOrResetReached ==
  /\ last.op = "create"
  /\ last.outcome = "ok"
  /\ last.wrote
  /\ last.input.phone = Undef
  /\ last.input.tags = UndefList
  /\ \E id \in Existing :
       /\ db.users[id].email = last.input.email
       /\ db.users[id].phone # Undef
       /\ TagsOf(db, id) = {}
  /\ db.busySlots = EmptyBag
  /\ db.tags = {<<"a">>, <<"b">>}

-----------------------------------------------------------------------------
(* Overlapping requests, checked under RaceSpec *)

\* C5: no orphaned rows: every tag association and every busy slot belongs to
\* a user that exists, also when a delete of the user lands between the
\* findUnique of markBusy and its busySlot.create.
NoOrphans ==
  /\ \A ut \in db.userTags : Exists(db, ut[1])
  /\ \A s \in DOMAIN db.busySlots : Exists(db, s.userId)

\* the busySlot.create of a markBusy was refused by the foreign key: the user
\* it had found is gone
NoOrphansWitness ==
  /\ last.op = "markBusy"
  /\ last.outcome = "P2003"
  /\ Existing = {}
  /\ db.tags # {}

\* one commit landed while the query answered was in flight
Raced == Answered /\ last.q.muts = 1

\* the user as the response lists it is the user as the store held it before
\* the commit, or as it holds it after
BeforeOrAfter(id) ==
  last.q.users[id] \in {ViewOf(last.q.pre, id), ViewOf(db, id)}

\* C10: a mutation racing with getFreeUsers is observed entirely or not at
\* all: every user of the response is listed as it was before the commit or
\* as it is after it, and none is listed with a busy slot that overlaps the
\* window.
RacingReadSeesOneState ==
  Raced =>
    \A id \in Returned :
      /\ BeforeOrAfter(id)
      /\ \A s \in DOMAIN last.q.users[id].busy : ~Overlaps(s, last.q.from, last.q.to)

\* the part of C10 that a markBusy alone refutes
RacingReadListsNoOverlap ==
  Raced =>
    \A id \in Returned :
      \A s \in DOMAIN last.q.users[id].busy : ~Overlaps(s, last.q.from, last.q.to)

\* the part of C10 that an update of name and tags alone refutes
RacingReadNotTorn == Raced => \A id \in Returned : BeforeOrAfter(id)

====
